---- MODULE Spec2Model ----
(***************************************************************************)
(* A model of aurae-client/src/client.rs: AuraeClient::new, the async      *)
(* constructor that reads three PEM files, assembles a tonic               *)
(* ClientTlsConfig, inspects the client certificate, chooses between a     *)
(* network channel and a UNIX-socket channel and connects.                 *)
(*                                                                         *)
(* Each caller runs one call of AuraeClient::new.  A call is a sequence of *)
(* steps, one per statement of the function body; pc[c] is the statement   *)
(* the call of caller c executes next.                                     *)
(***************************************************************************)
EXTENDS Naturals, Sequences, FiniteSets, TLC

\* ------------------------------------------------------------------ bounds

\* How many distinct common names the certificates of the model draw from.
NumNames == 2

\* ------------------------------------------------------- the configuration

Callers == {"c1", "c2"}

None == [kind |-> "none"]

\* AuraeConfig.auth: the three paths (one AuraeConfig, shared by the callers).
auth ==
    [ca_crt     |-> "/etc/aurae/pki/ca.crt",
     client_crt |-> "/etc/aurae/pki/_signed.client.crt",
     client_key |-> "/etc/aurae/pki/client.key"]

\* The strings AuraeConfig.system.socket is drawn from, each given with the
\* structure the two parsers look at: its scheme (before ":"), whether "//"
\* follows the colon, the authority, the hierarchical path (each segment is
\* written after a "/"), and an opaque remainder (no "/" in it).
SocketHttps ==      \* "https://runtime.example:50051"
    [scheme |-> "https", slashes |-> TRUE, authority |-> "runtime.example:50051",
     path |-> << >>, opaque |-> ""]
SocketPath ==       \* "/var/run/runtime.sock"
    [scheme |-> "", slashes |-> FALSE, authority |-> "",
     path |-> <<"var", "run", "runtime.sock">>, opaque |-> ""]
SocketFileUrl ==    \* "file:///var/run/runtime.sock"
    [scheme |-> "file", slashes |-> TRUE, authority |-> "",
     path |-> <<"var", "run", "runtime.sock">>, opaque |-> ""]
SocketMailto ==     \* "mailto:ops@runtime.example"
    [scheme |-> "mailto", slashes |-> FALSE, authority |-> "",
     path |-> << >>, opaque |-> "ops@runtime.example"]

SocketStrings == {SocketHttps, SocketPath, SocketFileUrl, SocketMailto}

KNOWN_IGNORED_SOCKET_ADDR ==    \* "hxxp://null"
    [scheme |-> "hxxp", slashes |-> TRUE, authority |-> "null",
     path |-> << >>, opaque |-> ""]

\* ------------------------------------------------------------ file contents

CommonNames == {[kind |-> "CN", id |-> i] : i \in 1..NumNames}

SpkiAlgorithms == {"rsaEncryption", "id-Ed25519", "unknown-oid"}

Absent  == [kind |-> "absent"]        \* the path cannot be read
Garbage == [kind |-> "garbage"]       \* bytes that hold no well-formed PEM block

\* A well-formed PEM certificate; a field the certificate lacks is None.
Certificates ==
    [kind : {"certificate"},
     subject_cn : CommonNames \cup {None},
     issuer_cn  : CommonNames \cup {None},
     spki       : SpkiAlgorithms]

CaPem == [kind |-> "certificate", subject_cn |-> [kind |-> "CN", id |-> 0],
          issuer_cn |-> [kind |-> "CN", id |-> 0], spki |-> "rsaEncryption"]

\* A well-formed PEM private key, which is or is not the key of the client
\* certificate stored beside it.
PrivateKeys == [kind : {"private_key"}, matches_cert : BOOLEAN]

CaFiles   == {Absent, Garbage, CaPem}
CertFiles == {Absent, Garbage} \cup Certificates
KeyFiles  == {Absent, Garbage} \cup PrivateKeys

\* What the endpoint a target designates does with a dial.
PeerBehaviours == {"accepts", "refuses", "rejects_handshake"}

\* ------------------------------------------------------------------- state

VARIABLES
    fs,         \* path -> contents of the file
    socket,     \* caller -> AuraeConfig.system.socket of its call
    peer,       \* caller -> behaviour of the endpoint its target designates
    pc,         \* caller -> the statement its call executes next
    bytes,      \* caller -> the buffers read so far (server_root_ca_cert, ...)
    tls_config, \* caller -> the ClientTlsConfig assembled, or None
    x509_details, \* caller -> the X509Details built, or None
    target,     \* caller -> the transport chosen (uri or socket), or None
    channel,    \* caller -> the connected Channel, or None
    result,     \* caller -> what the call returned, or None while it runs
    events,     \* caller -> the operations the call has performed, in order
    open        \* caller -> the files and sockets open on behalf of its call

vars == <<fs, socket, peer, pc, bytes, tls_config, x509_details, target,
          channel, result, events, open>>

env == <<fs, socket, peer>>

\* ------------------------------------------------------------------ errors

\* anyhow::Error: the error a statement produced (cause) and the message
\* with_context wrapped around it, if any.  arg is the value the message
\* formats, None when the message is a fixed string.
NoContext == [msg |-> "", arg |-> None]

Context(msg, arg) == [msg |-> msg, arg |-> arg]

Err(cause, detail, context) ==
    [kind |-> "Err", cause |-> cause, detail |-> detail, context |-> context]

Ok(value) == [kind |-> "Ok", value |-> value]

\* A panic unwinding out of the call.
Panicked(msg) == [kind |-> "Panic", msg |-> msg]

\* The design's error kinds, by the type of the error the code returns.
ErrorKind(e) ==
    CASE e.cause = "std::io::Error"                 -> "IOError"
      [] e.cause = "x509_certificate::Error"        -> "CryptoError"
      [] e.cause = "tonic::transport::Error(tls)"   -> "CryptoError"
      [] e.cause = "anyhow!"                        -> "IdentityError"
      [] e.cause = "tonic::transport::Error(connect)" -> "ConnectionError"

\* ---------------------------------------------------------- pure functions

\* url: the schemes the URL parser treats as special.
SpecialSchemes == {"http", "https", "ws", "wss", "ftp", "file"}

\* url::Url::parse(&system.socket).  Without a scheme the string is a relative
\* reference and there is no base; a special scheme other than file needs a
\* host.  The Url holds its serialization, in which a special scheme is
\* followed by "//" and the path is not empty, and whether it has a host.
UrlParse(s) ==
    IF s.scheme = "" THEN Err("url::ParseError", "RelativeUrlWithoutBase", NoContext)
    ELSE IF s.scheme \in SpecialSchemes \ {"file"} /\ s.authority = ""
    THEN Err("url::ParseError", "EmptyHost", NoContext)
    ELSE Ok([serialization |->
                [s EXCEPT
                   !.slashes = IF s.scheme \in SpecialSchemes THEN TRUE ELSE @,
                   !.path    = IF s.scheme \in SpecialSchemes /\ @ = << >>
                               THEN <<"">> ELSE @],
             has_host |-> s.authority # ""])

\* Url::as_str: the serialization the Url holds.
UrlAsStr(url) == url.serialization

\* http::Uri::from_str.  A scheme is recognised only when "://" follows it, and
\* then an authority is required; without "://" the whole string has to be an
\* authority, so nothing may follow it.
UriFromStr(s) ==
    IF s.scheme # "" /\ s.slashes
    THEN IF s.authority = ""
         THEN Err("http::uri::InvalidUri", "InvalidFormat", NoContext)
         ELSE Ok([scheme |-> s.scheme, authority |-> s.authority, str |-> s])
    ELSE IF s.path # << >>
         THEN IF s.scheme = "" /\ s.opaque = ""
              THEN Ok([scheme |-> "", authority |-> "", str |-> s])   \* path only
              ELSE Err("http::uri::InvalidUri", "InvalidFormat", NoContext)
         ELSE Ok([scheme |-> "", authority |-> s.opaque, str |-> s])

\* X509Certificate::from_pem: the first PEM block, parsed as a certificate.
X509FromPem(data) ==
    IF data.kind = "certificate" THEN Ok(data)
    ELSE Err("x509_certificate::Error", "PemDecode", NoContext)

subject_common_name(x509) == x509.subject_cn

issuer_common_name(x509) == x509.issuer_cn

\* X509Certificate::key_algorithm: the KeyAlgorithm of the SPKI algorithm OID,
\* None for an OID the crate does not know.
key_algorithm(x509) ==
    CASE x509.spki = "rsaEncryption" -> [kind |-> "KeyAlgorithm", name |-> "Rsa"]
      [] x509.spki = "id-Ed25519"    -> [kind |-> "KeyAlgorithm", name |-> "Ed25519"]
      [] OTHER                       -> None

\* KeyAlgorithmToString giving the name of the enum variant, as {:?} does.
KeyAlgorithmToString_Debug(alg) == [kind |-> "String", text |-> alg.name]

\* KeyAlgorithm's Display.
KeyAlgorithmToString(alg) ==
    CASE alg.name = "Rsa"     -> [kind |-> "String", text |-> "RSA"]
      [] alg.name = "Ed25519" -> [kind |-> "String", text |-> "ED25519"]

\* sha256_fingerprint with an encoder that fails on keys it does not know.
sha256_fingerprint_Fallible(x509) ==
    IF key_algorithm(x509) = None
    THEN Err("std::io::Error", "WriteZero", NoContext)
    ELSE Ok([algorithm |-> "SHA256", of |-> x509])

\* X509Certificate::sha256_fingerprint: the SHA-256 digest of the DER encoding.
sha256_fingerprint(x509) == Ok([algorithm |-> "SHA256", of |-> x509])

\* format!("{:?}", digest)
DebugDigest(digest) ==
    [kind |-> "String", text |-> digest.algorithm, hex |-> digest.of]

\* TlsConnector with the private key left unparsed until the handshake.
TlsConnector_KeyUnparsed(config, keyCheck) ==
    IF config.ca_certificate.kind # "certificate"
    THEN Err("tonic::transport::Error(tls)", "CertificateParseError", NoContext)
    ELSE IF config.identity.cert.kind # "certificate"
    THEN Err("tonic::transport::Error(tls)", "CertificateParseError", NoContext)
    ELSE Ok(config)

\* tonic Endpoint::tls_config: builds the TLS connector from the configuration,
\* which is where the PEM blocks are parsed.  keyCheck says whether this build
\* checks that the private key is the certificate's.
TlsConnector(config, keyCheck) ==
    IF config.ca_certificate.kind # "certificate"
    THEN Err("tonic::transport::Error(tls)", "CertificateParseError", NoContext)
    ELSE IF config.identity.cert.kind # "certificate"
    THEN Err("tonic::transport::Error(tls)", "CertificateParseError", NoContext)
    ELSE IF config.identity.key.kind # "private_key"
    THEN Err("tonic::transport::Error(tls)", "PrivateKeyParseError", NoContext)
    ELSE IF keyCheck /\ ~config.identity.key.matches_cert
    THEN Err("tonic::transport::Error(tls)", "InconsistentKeys", NoContext)
    ELSE Ok(config)

\* A value of the event log: the operation, what it was applied to, and
\* whether it succeeded.
Event(op, arg, ok) == [op |-> op, arg |-> arg, ok |-> ok]

\* tokio::fs::read(path).await
FsRead(files, path) ==
    IF files[path] = Absent
    THEN Err("std::io::Error", "NotFound", NoContext)
    ELSE Ok(files[path])

\* WithContext that puts the message in place of the error it was given.
WithContext_CauseDropped(r, context) ==
    IF r.kind = "Err" THEN Err("anyhow!", context.msg, NoContext) ELSE r

\* .with_context(|| msg) on a Result
WithContext(r, context) ==
    IF r.kind = "Err" THEN [r EXCEPT !.context = context] ELSE r

\* InspectCertificate with a missing issuer common name let through.
InspectCertificate_IssuerUnchecked(client_cert) ==
    LET parsed == X509FromPem(client_cert) IN
    IF parsed.kind = "Err" THEN parsed
    ELSE LET x509 == parsed.value IN
    IF subject_common_name(x509) = None
    THEN Err("anyhow!", "missing subject_common_name", NoContext)
    ELSE IF key_algorithm(x509) = None
    THEN Err("anyhow!", "missing key_algorithm", NoContext)
    ELSE Ok([subject_common_name |-> subject_common_name(x509),
             issuer_common_name  |-> issuer_common_name(x509),
             sha256_fingerprint  |-> DebugDigest(sha256_fingerprint(x509).value),
             key_algorithm       |-> KeyAlgorithmToString(key_algorithm(x509))])

\* Lines 87-109: the certificate is parsed and the four fields are taken from
\* it in the order subject CN, issuer CN, fingerprint, key algorithm; the
\* first that is missing ends the function.
InspectCertificate(client_cert) ==
    LET parsed == X509FromPem(client_cert) IN
    IF parsed.kind = "Err" THEN parsed
    ELSE LET x509 == parsed.value IN
    IF subject_common_name(x509) = None
    THEN Err("anyhow!", "missing subject_common_name", NoContext)
    ELSE IF issuer_common_name(x509) = None
    THEN Err("anyhow!", "missing issuer_common_name", NoContext)
    ELSE IF sha256_fingerprint(x509).kind = "Err"
    THEN sha256_fingerprint(x509)
    ELSE IF key_algorithm(x509) = None
    THEN Err("anyhow!", "missing key_algorithm", NoContext)
    ELSE Ok([subject_common_name |-> subject_common_name(x509),
             issuer_common_name  |-> issuer_common_name(x509),
             sha256_fingerprint  |-> DebugDigest(sha256_fingerprint(x509).value),
             key_algorithm       |-> KeyAlgorithmToString(key_algorithm(x509))])

\* The operations of lines 87-102 that ran, given the outcome.
InspectEvents(client_cert) ==
    LET r  == InspectCertificate(client_cert)
        ok == r.kind = "Ok"
        d  == IF ok THEN "" ELSE r.detail
    IN  IF X509FromPem(client_cert).kind = "Err"
        THEN <<Event("x509_from_pem", "client_crt", FALSE)>>
        ELSE <<Event("x509_from_pem", "client_crt", TRUE)>> \o
             (IF d = "missing subject_common_name"
              THEN <<Event("subject_common_name", "client_crt", FALSE)>>
              ELSE <<Event("subject_common_name", "client_crt", TRUE)>> \o
             (IF d = "missing issuer_common_name"
              THEN <<Event("issuer_common_name", "client_crt", FALSE)>>
              ELSE <<Event("issuer_common_name", "client_crt", TRUE)>> \o
             (IF sha256_fingerprint(X509FromPem(client_cert).value).kind = "Err"
              THEN <<Event("sha256_fingerprint", "client_crt", FALSE)>>
              ELSE <<Event("sha256_fingerprint", "client_crt", TRUE)>> \o
             (IF d = "missing key_algorithm"
              THEN <<Event("key_algorithm", "client_crt", FALSE)>>
              ELSE <<Event("key_algorithm", "client_crt", TRUE),
                     Event("x509_details", "client_crt", TRUE)>>))))

\* Lines 113-114 and 117-118: the transport the call will dial.  A socket
\* string the URL parser accepts is converted to a Uri, and the conversion is
\* unwrapped with expect("valid uri"); any other string is kept as a path and
\* the channel is given the fixed address.
SelectTransport(s) ==
    LET url == UrlParse(s) IN
    IF url.kind = "Ok"
    THEN LET uri == UriFromStr(UrlAsStr(url.value)) IN
         IF uri.kind = "Ok"
         THEN Ok([kind |-> "Network", uri |-> uri.value, path |-> None])
         ELSE Panicked("valid uri")
    ELSE Ok([kind |-> "LocalSocket",
             uri  |-> UriFromStr(KNOWN_IGNORED_SOCKET_ADDR).value,
             path |-> s])

\* DialVerdicts with TLS layered on network streams only: the stream of a
\* local socket is used as it is, so no handshake can reject it.
DialVerdicts_PlainLocalSocket(t, config, behaviour) ==
    IF t.kind = "LocalSocket"
    THEN {IF behaviour = "refuses" THEN "refuses" ELSE "accepts"}
    ELSE LET byPeer == IF t.uri.scheme \notin {"http", "https"}
                       THEN "refuses" ELSE behaviour
         IN  {byPeer} \cup
             (IF /\ byPeer = "accepts"
                 /\ config.identity.key.kind = "private_key"
                 /\ ~config.identity.key.matches_cert
              THEN {"rejects_handshake"} ELSE {})

\* The handshake verdicts a dial can end with.  The peer decides; a client key
\* that is not the certificate's may besides be refused by the peer.
DialVerdicts(t, config, behaviour) ==
    LET byPeer ==
            IF t.kind = "Network" /\ t.uri.scheme \notin {"http", "https"}
            THEN "refuses"
            ELSE behaviour
    IN  {byPeer} \cup
        (IF /\ byPeer = "accepts"
            /\ config.identity.key.kind = "private_key"
            /\ ~config.identity.key.matches_cert
         THEN {"rejects_handshake"} ELSE {})

\* ----------------------------------------------------------------- actions

Paths == {auth.ca_crt, auth.client_crt, auth.client_key}

NoBytes == [ca_crt |-> None, client_crt |-> None, client_key |-> None]

\* return Err(e) / Ok(..) / unwind: the call is over.
Return(c, r, evs) ==
    /\ result' = [result EXCEPT ![c] = r]
    /\ pc'     = [pc EXCEPT ![c] = "done"]
    /\ events' = [events EXCEPT ![c] = @ \o evs]

Goto(c, next, evs) ==
    /\ pc'     = [pc EXCEPT ![c] = next]
    /\ events' = [events EXCEPT ![c] = @ \o evs]
    /\ UNCHANGED result

\* ReadCredential without the ?: an unreadable file leaves an empty buffer and
\* the call goes on.
ReadCredential_NoFailFast(c, field, msg, next) ==
    LET r == WithContext(FsRead(fs, auth[field]), Context(msg, None)) IN
    /\ bytes' = [bytes EXCEPT ![c][field] =
                    IF r.kind = "Err" THEN Garbage ELSE r.value]
    /\ Goto(c, next, <<Event("read", field, r.kind = "Ok")>>)
    /\ open' = [open EXCEPT ![c] = @ \ {field}]
    /\ UNCHANGED <<env, tls_config, x509_details, target, channel>>

\* tokio::fs::read(&auth.<field>).await.with_context(|| msg)?
ReadCredential(c, field, msg, next) ==
    LET r == WithContext(FsRead(fs, auth[field]), Context(msg, None)) IN
    /\ IF r.kind = "Err"
       THEN /\ Return(c, r, <<Event("read", field, FALSE)>>)
            /\ UNCHANGED bytes
       ELSE /\ bytes' = [bytes EXCEPT ![c][field] = r.value]
            /\ Goto(c, next, <<Event("read", field, TRUE)>>)
    /\ open' = [open EXCEPT ![c] = @ \ {field}]
    /\ UNCHANGED <<env, tls_config, x509_details, target, channel>>

\* Lines 67-69.
ReadCaCrt(c) ==
    /\ pc[c] = "read_ca_crt"
    /\ ReadCredential(c, "ca_crt", "could not read ca crt", "read_client_crt")

\* Lines 71-73.
ReadClientCrt(c) ==
    /\ pc[c] = "read_client_crt"
    /\ ReadCredential(c, "client_crt", "could not read client crt", "read_client_key")

\* Lines 75-77.
ReadClientKey(c) ==
    /\ pc[c] = "read_client_key"
    /\ ReadCredential(c, "client_key", "could not read client key", "tls_assemble")

\* Lines 79-85: ClientTlsConfig::new().domain_name(..).ca_certificate(..)
\* .identity(..).  The builders store the bytes; nothing is parsed.
ClientTlsConfig(b) ==
    [domain_name    |-> "server.unsafe.aurae.io",
     ca_certificate |-> b.ca_crt,
     identity       |-> [cert |-> b.client_crt, key |-> b.client_key]]

AssembleTlsConfig(c) ==
    /\ pc[c] = "tls_assemble"
    /\ tls_config' = [tls_config EXCEPT ![c] = ClientTlsConfig(bytes[c])]
    /\ Goto(c, "inspect", <<Event("tls_assemble", "tls_config", TRUE)>>)
    /\ UNCHANGED <<env, open, bytes, x509_details, target, channel>>

\* Inspect taking the certificate from the file again instead of the buffer
\* read on line 71.
Inspect_RereadsFile(c) ==
    /\ pc[c] = "inspect"
    /\ LET r == InspectCertificate(fs[auth.client_crt]) IN
       IF r.kind = "Err"
       THEN /\ Return(c, r, InspectEvents(fs[auth.client_crt]))
            /\ UNCHANGED x509_details
       ELSE /\ x509_details' = [x509_details EXCEPT ![c] = r.value]
            /\ Goto(c, "select", InspectEvents(fs[auth.client_crt]))
    /\ UNCHANGED <<env, open, bytes, tls_config, target, channel>>

\* Lines 87-109.
Inspect(c) ==
    /\ pc[c] = "inspect"
    /\ LET r == InspectCertificate(bytes[c].client_crt) IN
       IF r.kind = "Err"
       THEN /\ Return(c, r, InspectEvents(bytes[c].client_crt))
            /\ UNCHANGED x509_details
       ELSE /\ x509_details' = [x509_details EXCEPT ![c] = r.value]
            /\ Goto(c, "select", InspectEvents(bytes[c].client_crt))
    /\ UNCHANGED <<env, open, bytes, tls_config, target, channel>>

\* The operations of lines 113-114 that ran.
SelectEvents(s) ==
    IF UrlParse(s).kind = "Ok"
    THEN <<Event("url_parse", "system.socket", TRUE),
           Event("uri_from_str", "system.socket", SelectTransport(s).kind = "Ok")>>
    ELSE <<Event("url_parse", "system.socket", FALSE)>>

\* Select keeping the chosen transport in one place for all calls, as a
\* mutable static would.
Select_SharedTarget(c) ==
    /\ pc[c] = "select"
    /\ LET r == SelectTransport(socket[c]) IN
       IF r.kind = "Ok"
       THEN /\ target' = [d \in Callers |-> r.value]
            /\ Goto(c, "tls_config", SelectEvents(socket[c]))
       ELSE /\ Return(c, r, SelectEvents(socket[c]))
            /\ UNCHANGED target
    /\ UNCHANGED <<env, open, bytes, tls_config, x509_details, channel>>

\* Lines 113-114, 117-118.
Select(c) ==
    /\ pc[c] = "select"
    /\ LET r == SelectTransport(socket[c]) IN
       IF r.kind = "Ok"
       THEN /\ target' = [target EXCEPT ![c] = r.value]
            /\ Goto(c, "tls_config", SelectEvents(socket[c]))
       ELSE /\ Return(c, r, SelectEvents(socket[c]))
            /\ UNCHANGED target
    /\ UNCHANGED <<env, open, bytes, tls_config, x509_details, channel>>

\* Lines 115 and 119: .tls_config(tls_config)?  The ? is inside the if/else
\* expression, so its error leaves the function without the context of
\* lines 125-127.
ApplyTlsConfig(c) ==
    /\ pc[c] = "tls_config"
    /\ \E keyCheck \in BOOLEAN :
         LET r == TlsConnector(tls_config[c], keyCheck) IN
         IF r.kind = "Err"
         THEN Return(c, r, <<Event("tls_config", target[c].kind, FALSE)>>)
         ELSE Goto(c, "connect", <<Event("tls_config", target[c].kind, TRUE)>>)
    /\ UNCHANGED <<env, open, bytes, tls_config, x509_details, target, channel>>

\* What connect / connect_with_connector dials: the Uri of the endpoint for a
\* network target; for a local socket the connector drops the Uri it is given
\* and connects the UnixStream to the configured path.
Dialed(t) == IF t.kind = "Network" THEN t.uri.str ELSE t.path

\* Connect with the with_context inside the network branch only: a failed dial
\* of a local socket is returned as the bare transport error.
Connect_ContextOnNetworkOnly(c) ==
    /\ pc[c] = "connect"
    /\ \E verdict \in DialVerdicts(target[c], tls_config[c], peer[c]) :
         LET dial == IF verdict = "accepts"
                     THEN Ok([transport |-> target[c].kind,
                              uri       |-> target[c].uri,
                              dialed    |-> Dialed(target[c]),
                              tls       |-> tls_config[c]])
                     ELSE Err("tonic::transport::Error(connect)", verdict, NoContext)
             r == IF target[c].kind = "Network"
                  THEN WithContext(dial,
                          Context("unable to connect to socket {:?}", socket[c]))
                  ELSE dial
         IN  IF r.kind = "Err"
             THEN /\ Return(c, r, <<Event("dial", target[c].kind, FALSE)>>)
                  /\ open' = [open EXCEPT ![c] = {}]
                  /\ UNCHANGED channel
             ELSE /\ channel' = [channel EXCEPT ![c] = r.value]
                  /\ open' = [open EXCEPT ![c] = {"socket"}]
                  /\ Goto(c, "assemble", <<Event("dial", target[c].kind, TRUE)>>)
    /\ UNCHANGED <<env, bytes, tls_config, x509_details, target>>

\* Connect falling back to the Unix socket when the network dial fails.
Connect_FallbackToUnix(c) ==
    /\ pc[c] = "connect"
    /\ \E verdict \in DialVerdicts(target[c], tls_config[c], peer[c]) :
         LET r == WithContext(
                    IF verdict = "accepts"
                    THEN Ok([transport |-> target[c].kind,
                             uri       |-> target[c].uri,
                             dialed    |-> Dialed(target[c]),
                             tls       |-> tls_config[c]])
                    ELSE Err("tonic::transport::Error(connect)", verdict, NoContext),
                    Context("unable to connect to socket {:?}", socket[c]))
         IN  IF r.kind = "Err"
             THEN /\ Return(c, r,
                        IF target[c].kind = "Network"
                        THEN <<Event("dial", "Network", FALSE),
                               Event("dial", "LocalSocket", FALSE)>>
                        ELSE <<Event("dial", "LocalSocket", FALSE)>>)
                  /\ open' = [open EXCEPT ![c] = {}]
                  /\ UNCHANGED channel
             ELSE /\ channel' = [channel EXCEPT ![c] = r.value]
                  /\ open' = [open EXCEPT ![c] = {"socket"}]
                  /\ Goto(c, "assemble", <<Event("dial", target[c].kind, TRUE)>>)
    /\ UNCHANGED <<env, bytes, tls_config, x509_details, target>>

\* Connect, dialing again when the dial fails.
Connect_Retry(c) ==
    /\ pc[c] = "connect"
    /\ \E verdict \in DialVerdicts(target[c], tls_config[c], peer[c]) :
         IF verdict = "accepts"
         THEN /\ channel' = [channel EXCEPT ![c] =
                               [transport |-> target[c].kind, uri |-> target[c].uri,
                                dialed |-> Dialed(target[c]), tls |-> tls_config[c]]]
              /\ Goto(c, "assemble", <<Event("dial", target[c].kind, TRUE)>>)
              /\ open' = [open EXCEPT ![c] = {"socket"}]
         ELSE /\ Goto(c, "connect", <<Event("dial", target[c].kind, FALSE)>>)
              /\ UNCHANGED <<channel, open>>
    /\ UNCHANGED <<env, bytes, tls_config, x509_details, target>>

\* Lines 115 and 120-127: .connect().await or .connect_with_connector(..).await,
\* then .with_context(|| format!("unable to connect to socket {:?}", ..))?
Connect(c) ==
    /\ pc[c] = "connect"
    /\ \E verdict \in DialVerdicts(target[c], tls_config[c], peer[c]) :
         LET r == WithContext(
                    IF verdict = "accepts"
                    THEN Ok([transport |-> target[c].kind,
                             uri       |-> target[c].uri,
                             dialed    |-> Dialed(target[c]),
                             tls       |-> tls_config[c]])
                    ELSE Err("tonic::transport::Error(connect)", verdict, NoContext),
                    Context("unable to connect to socket {:?}", socket[c]))
         IN  IF r.kind = "Err"
             THEN /\ Return(c, r, <<Event("dial", target[c].kind, FALSE)>>)
                  /\ open' = [open EXCEPT ![c] = {}]
                  /\ UNCHANGED channel
             ELSE /\ channel' = [channel EXCEPT ![c] = r.value]
                  /\ open' = [open EXCEPT ![c] = {"socket"}]
                  /\ Goto(c, "assemble", <<Event("dial", target[c].kind, TRUE)>>)
    /\ UNCHANGED <<env, bytes, tls_config, x509_details, target>>

\* Assemble with the subject name taken from the authority of the channel.
Assemble_SubjectFromChannel(c) ==
    /\ pc[c] = "assemble"
    /\ Return(c, Ok([channel |-> channel[c],
                     x509_details |->
                        [x509_details[c] EXCEPT !.subject_common_name =
                            [kind |-> "Authority", text |-> channel[c].uri.authority]]]),
              <<Event("assemble", "AuraeClient", TRUE)>>)
    /\ UNCHANGED <<env, open, bytes, tls_config, x509_details, target, channel>>

\* Line 129: Ok(Self { channel, x509_details })
Assemble(c) ==
    /\ pc[c] = "assemble"
    /\ Return(c, Ok([channel |-> channel[c], x509_details |-> x509_details[c]]),
              <<Event("assemble", "AuraeClient", TRUE)>>)
    /\ UNCHANGED <<env, open, bytes, tls_config, x509_details, target, channel>>

Next ==
    \E c \in Callers :
        \/ ReadCaCrt(c)
        \/ ReadClientCrt(c)
        \/ ReadClientKey(c)
        \/ AssembleTlsConfig(c)
        \/ Inspect(c)
        \/ Select(c)
        \/ ApplyTlsConfig(c)
        \/ Connect(c)
        \/ Assemble(c)

\* ----------------------------------------------------------- specifications

\* The file system and the callers' configurations, with the given callers
\* about to enter AuraeClient::new and the others making no call.  sockets
\* are the socket strings and behaviours the peer behaviours drawn from.
Start(calling, sockets, behaviours) ==
    /\ \E ca \in CaFiles, crt \in CertFiles, key \in KeyFiles :
         fs = (auth.ca_crt :> ca) @@ (auth.client_crt :> crt) @@ (auth.client_key :> key)
    /\ socket \in [Callers -> sockets]
    /\ peer \in [Callers -> behaviours]
    /\ \A c \in Callers \ calling : socket[c] = SocketPath /\ peer[c] = "refuses"
    /\ pc = [c \in Callers |-> IF c \in calling THEN "read_ca_crt" ELSE "idle"]
    /\ bytes = [c \in Callers |-> NoBytes]
    /\ tls_config = [c \in Callers |-> None]
    /\ x509_details = [c \in Callers |-> None]
    /\ target = [c \in Callers |-> None]
    /\ channel = [c \in Callers |-> None]
    /\ result = [c \in Callers |-> None]
    /\ events = [c \in Callers |-> << >>]
    /\ open = [c \in Callers |-> {}]

\* One call of AuraeClient::new.
Init == Start({"c1"}, SocketStrings, PeerBehaviours)

Spec == Init /\ [][Next]_vars

\* Two calls of AuraeClient::new by independent callers, with the same
\* credential files and each with its own system.socket.
PairInit ==
    Start(Callers, {SocketHttps, SocketPath, SocketFileUrl}, {"accepts", "refuses"})

PairSpec == PairInit /\ [][Next]_vars

\* One call whose caller keeps awaiting it: the runtime polls the future until
\* it is ready.
FairSpec == Init /\ [][Next]_vars /\ WF_vars(Next)

\* The client certificate file is replaced while calls are in progress: another
\* process renews the certificate, which gives it the next subject name.
Rotate ==
    /\ fs[auth.client_crt] \in Certificates
    /\ fs[auth.client_crt].subject_cn # None
    /\ fs[auth.client_crt].subject_cn.id < NumNames
    /\ fs' = [fs EXCEPT ![auth.client_crt].subject_cn.id = @ + 1]
    /\ UNCHANGED <<socket, peer, pc, bytes, tls_config, x509_details, target,
                   channel, result, events, open>>

ChurnNext == Next \/ Rotate

\* One call, with the certificate file changing under it.
ChurnSpec == Init /\ [][ChurnNext]_vars

\* The statements at which the call is suspended in an await: the three reads
\* and the connect.
Suspended == {"read_ca_crt", "read_client_crt", "read_client_key", "connect"}

FieldRead(at) ==
    CASE at = "read_ca_crt"     -> "ca_crt"
      [] at = "read_client_crt" -> "client_crt"
      [] at = "read_client_key" -> "client_key"

Cancelled == [kind |-> "Cancelled"]

\* tokio::fs::read hands std::fs::read to the blocking pool; a thread of the
\* pool opens the file while the call waits for the result.
OpenFile(c) ==
    /\ pc[c] \in Suspended \ {"connect"}
    /\ fs[auth[FieldRead(pc[c])]] # Absent
    /\ FieldRead(pc[c]) \notin open[c]
    /\ open' = [open EXCEPT ![c] = @ \cup {FieldRead(pc[c])}]
    /\ UNCHANGED <<env, pc, bytes, tls_config, x509_details, target, channel,
                   result, events>>

\* The connector has opened the TCP or Unix stream; the handshake goes on while
\* the call waits.
OpenSocket(c) ==
    /\ pc[c] = "connect"
    /\ "socket" \notin open[c]
    /\ "refuses" \notin DialVerdicts(target[c], tls_config[c], peer[c])
    /\ open' = [open EXCEPT ![c] = @ \cup {"socket"}]
    /\ UNCHANGED <<env, pc, bytes, tls_config, x509_details, target, channel,
                   result, events>>

\* The caller drops the future of AuraeClient::new while it is suspended.  The
\* locals and the future awaited are dropped: a stream being connected is
\* closed with it.  The JoinHandle of a read is dropped too, which does not
\* stop std::fs::read on the blocking pool: a file it has opened stays open.
Cancel(c) ==
    /\ pc[c] \in Suspended
    /\ pc' = [pc EXCEPT ![c] = "cancelled"]
    /\ result' = [result EXCEPT ![c] = Cancelled]
    /\ open' = [open EXCEPT ![c] = @ \ {"socket"}]
    /\ bytes' = [bytes EXCEPT ![c] = NoBytes]
    /\ tls_config' = [tls_config EXCEPT ![c] = None]
    /\ x509_details' = [x509_details EXCEPT ![c] = None]
    /\ target' = [target EXCEPT ![c] = None]
    /\ UNCHANGED <<env, channel, events>>

\* std::fs::read of an abandoned read returns on the blocking pool: the file
\* is closed and the bytes are dropped.
BlockingReadEnds(c) ==
    /\ pc[c] = "cancelled"
    /\ open[c] # {}
    /\ open' = [open EXCEPT ![c] = {}]
    /\ UNCHANGED <<env, pc, bytes, tls_config, x509_details, target, channel,
                   result, events>>

CancelNext ==
    \/ Next
    \/ \E c \in Callers :
        \/ OpenFile(c)
        \/ OpenSocket(c)
        \/ Cancel(c)
        \/ BlockingReadEnds(c)

\* One call that its caller may drop at any await.
CancelSpec == Init /\ [][CancelNext]_vars

\* ------------------------------------------------- vocabulary of the claims

Done(c) == pc[c] = "done"

Failed(c) == result[c].kind = "Err"

Ready(c) == result[c].kind = "Ok"

Aborted(c) == result[c].kind = "Panic"

\* The call of c has performed the operation op.
Ran(c, op) == \E i \in DOMAIN events[c] : events[c][i].op = op

Succeeded(c, op) ==
    \E i \in DOMAIN events[c] : events[c][i].op = op /\ events[c][i].ok

\* The call of c has read all three files.
Loaded(c) == Succeeded(c, "read") /\ bytes[c].client_key # None

\* Certificates that have every field the inspection asks for.
CompleteCertificates ==
    {x \in Certificates :
        x.subject_cn # None /\ x.issuer_cn # None /\ x.spki # "unknown-oid"}

\* Everything the call of c read is sound, the key aside.
SoundButKey(c) ==
    /\ Loaded(c)
    /\ bytes[c].ca_crt = CaPem
    /\ bytes[c].client_crt \in CompleteCertificates

\* ---------------------------------------------------------------------- C1

KeyFault(key) ==
    \/ key = Garbage
    \/ key.kind = "private_key" /\ ~key.matches_cert

\* C1 as stated: with a malformed client key, or one that is not the
\* certificate's, a call that returns has failed with a CryptoError and has
\* not parsed system.socket as a URL before it fails.
C1_KeyFaultFailsBeforeClassification ==
    \A c \in Callers :
        (SoundButKey(c) /\ KeyFault(bytes[c].client_key) /\ Done(c) /\ ~Aborted(c)) =>
            /\ Failed(c)
            /\ ErrorKind(result[c]) = "CryptoError"
            /\ ~Ran(c, "url_parse")

\* C1 as amended: with the other credentials sound, a malformed PEM block in
\* the client key ends the call with no handle and no dial.  The key is
\* rejected where the TLS configuration is applied to the channel, after
\* system.socket has been classified: the call fails there with a CryptoError
\* that has no context, unless the Uri conversion of line 114 has panicked.
C1_MalformedKeyFailsAtTlsConfig ==
    \A c \in Callers :
        (SoundButKey(c) /\ bytes[c].client_key = Garbage /\ Done(c)) =>
            /\ ~Ready(c)
            /\ ~Ran(c, "dial")
            /\ Ran(c, "url_parse")
            /\ \/ Aborted(c) /\ ~Ran(c, "tls_config")
               \/ /\ Failed(c)
                  /\ ErrorKind(result[c]) = "CryptoError"
                  /\ result[c].detail = "PrivateKeyParseError"
                  /\ result[c].context = NoContext
                  /\ events[c][Len(events[c])] =
                         Event("tls_config", target[c].kind, FALSE)

C1_Witness ==
    \E c \in Callers :
        /\ SoundButKey(c) /\ bytes[c].client_key = Garbage /\ Done(c)
        /\ Failed(c) /\ ErrorKind(result[c]) = "CryptoError"
        /\ Ran(c, "url_parse")

\* ---------------------------------------------------------------------- C2

\* The stage of the design's state machine an operation of the code enters,
\* "" for an operation that enters none.  The TLS context is ready when
\* tls_config(..)? has accepted the configuration: lines 79-85 only store the
\* bytes.  A panic is no Failed(kind): it is listed as Aborted.
StageOf(e) ==
    CASE e.op = "read" /\ e.arg = "client_key" /\ e.ok -> "CredentialsLoaded"
      [] e.op = "x509_details"                         -> "IdentityResolved"
      [] e.op = "uri_from_str" /\ e.ok                 -> "TransportClassified"
      [] e.op = "url_parse" /\ ~e.ok                   -> "TransportClassified"
      [] e.op = "tls_config" /\ e.ok                   -> "TlsContextReady"
      [] e.op = "dial" /\ e.ok                         -> "Connected"
      [] e.op = "assemble"                             -> "Ready"
      [] e.op = "uri_from_str" /\ ~e.ok                -> "Aborted"
      [] e.op # "url_parse" /\ ~e.ok                   -> "Failed"
      [] OTHER                                         -> ""

Stages(c) ==
    <<"Init">> \o
    SelectSeq([i \in DOMAIN events[c] |-> StageOf(events[c][i])],
              LAMBDA st : st # "")

IsPrefix(s, t) == Len(s) <= Len(t) /\ \A i \in DOMAIN s : s[i] = t[i]

Terminal == {"Failed", "Aborted"}

\* The stages entered, the terminal one left out.
Progress(c) ==
    LET st == Stages(c) IN
    IF st[Len(st)] \in Terminal THEN SubSeq(st, 1, Len(st) - 1) ELSE st

DesignOrder ==
    <<"Init", "CredentialsLoaded", "IdentityResolved", "TlsContextReady",
      "TransportClassified", "Connected", "Ready">>

CodeOrder ==
    <<"Init", "CredentialsLoaded", "IdentityResolved", "TransportClassified",
      "TlsContextReady", "Connected", "Ready">>

\* A stage is left only for the next one or for a terminal one, and the call
\* takes no step once it is in a terminal stage or in Ready.
StagesFollow(order) ==
    \A c \in Callers :
        /\ IsPrefix(Progress(c), order)
        /\ \A i \in DOMAIN Progress(c) : Progress(c)[i] \notin Terminal
        /\ (Stages(c) # Progress(c) \/ Progress(c) = order) <=> Done(c)
        /\ Done(c) =>
             ~ENABLED (\/ ReadCaCrt(c) \/ ReadClientCrt(c) \/ ReadClientKey(c)
                       \/ AssembleTlsConfig(c) \/ Inspect(c) \/ Select(c)
                       \/ ApplyTlsConfig(c) \/ Connect(c) \/ Assemble(c))

\* C2 as stated: the stages are entered in the order Init, CredentialsLoaded,
\* IdentityResolved, TlsContextReady, TransportClassified, Connected, Ready,
\* each after its predecessor succeeded, and a failure is terminal.
C2_StagesInDesignOrder == StagesFollow(DesignOrder)

\* C2 as amended: the stages are entered in the order Init, CredentialsLoaded,
\* IdentityResolved, TransportClassified, TlsContextReady, Connected, Ready
\* (the TLS configuration is validated only after the transport has been
\* classified), each after its predecessor succeeded; a call that leaves this
\* sequence ends at once, by returning an error or by the panic of line 114,
\* and a call that has ended takes no further step.
C2_StagesInCodeOrder == StagesFollow(CodeOrder)

C2_Witness == \E c \in Callers : Stages(c) = CodeOrder /\ Done(c)

\* ---------------------------------------------------------------------- C3

\* The position of the first event of operation op in the log of c, 0 if none.
FirstAt(c, op) ==
    IF Ran(c, op)
    THEN CHOOSE i \in DOMAIN events[c] :
            /\ events[c][i].op = op
            /\ \A j \in 1..(i - 1) : events[c][j].op # op
    ELSE 0

IdentityErrors ==
    {"missing subject_common_name", "missing issuer_common_name",
     "missing key_algorithm"}

\* C3: when the client certificate the call has loaded is well formed but
\* lacks the subject common name, the issuer common name or the key algorithm,
\* the call fails with an IdentityError and has dialed nothing; and no call
\* dials, over the network or over a UNIX socket, before it has built the
\* X509Details.
C3_NoDialBeforeIdentity ==
    \A c \in Callers :
        /\ ( /\ Loaded(c)
             /\ bytes[c].client_crt \in Certificates \ CompleteCertificates
             /\ Done(c) ) =>
               /\ Failed(c)
               /\ ErrorKind(result[c]) = "IdentityError"
               /\ result[c].detail \in IdentityErrors
               /\ ~Ran(c, "dial")
               /\ ~Ran(c, "url_parse")
        /\ Ran(c, "dial") =>
               /\ Succeeded(c, "x509_details")
               /\ FirstAt(c, "x509_details") < FirstAt(c, "dial")
               /\ x509_details[c] # None

C3_Witness ==
    \E c \in Callers :
        /\ Loaded(c) /\ Done(c) /\ Failed(c)
        /\ bytes[c].client_crt \in Certificates
        /\ bytes[c].client_crt.issuer_cn = None
        /\ result[c].detail = "missing issuer_common_name"
        /\ ~Ran(c, "dial")

\* ---------------------------------------------------------------------- C4

\* The file reads of the call of c, in the order it made them.
Reads(c) == SelectSeq(events[c], LAMBDA e : e.op = "read")

ReadOrder == <<"ca_crt", "client_crt", "client_key">>

ReadMessage(field) ==
    CASE field = "ca_crt"     -> "could not read ca crt"
      [] field = "client_crt" -> "could not read client crt"
      [] field = "client_key" -> "could not read client key"

LastEvent(c) == events[c][Len(events[c])]

\* The call of c has just failed to read a file.
ReadFailed(c) ==
    /\ events[c] # << >>
    /\ LastEvent(c).op = "read"
    /\ ~LastEvent(c).ok

\* C4: the files are read in the order CA certificate, client certificate,
\* client key, each read succeeds exactly when the file is readable, and the
\* first unreadable file ends the call: nothing is read after it, and the
\* error returned is the same whatever the later files hold.
C4_ReadsInOrderFailFast ==
    \A c \in Callers :
        LET r == Reads(c) IN
        /\ IsPrefix([i \in DOMAIN r |-> r[i].arg], ReadOrder)
        /\ \A i \in DOMAIN r :
             /\ r[i].ok <=> fs[auth[r[i].arg]] # Absent
             /\ i < Len(r) => r[i].ok
             /\ ~r[i].ok =>
                  /\ Done(c) /\ ReadFailed(c)
                  /\ result[c] = Err("std::io::Error", "NotFound",
                                     Context(ReadMessage(r[i].arg), None))
        /\ (Done(c) /\ fs[auth.ca_crt] = Absent) =>
             /\ r = <<Event("read", "ca_crt", FALSE)>>
             /\ bytes[c] = NoBytes
        /\ (Done(c) /\ fs[auth.ca_crt] # Absent /\ fs[auth.client_crt] = Absent) =>
             /\ r = <<Event("read", "ca_crt", TRUE), Event("read", "client_crt", FALSE)>>
             /\ bytes[c].client_key = None

C4_Witness ==
    \E c \in Callers :
        /\ Done(c) /\ Failed(c)
        /\ fs[auth.ca_crt] = Absent
        /\ fs[auth.client_crt] # Absent /\ fs[auth.client_key] = Absent
        /\ Reads(c) = <<Event("read", "ca_crt", FALSE)>>

\* ---------------------------------------------------------------------- C5

\* A path formatted into a message.
PathArg(path) == [kind |-> "Path", text |-> path]

\* C5 as stated: the error of an unreadable credential file is an IOError that
\* carries the path of the file and the underlying cause.
C5_IoErrorCarriesPath ==
    \A c \in Callers :
        ReadFailed(c) =>
            /\ Failed(c)
            /\ ErrorKind(result[c]) = "IOError"
            /\ result[c].context.arg = PathArg(auth[LastEvent(c).arg])

\* C5 as amended: the error of an unreadable credential file is an IOError
\* that keeps the underlying io error as its cause and names the file by a
\* fixed message ("could not read ca crt", "could not read client crt",
\* "could not read client key"); the path is not part of the error.  No other
\* failure of the call is an IOError.
C5_IoErrorNamesCredential ==
    \A c \in Callers :
        /\ ReadFailed(c) =>
            /\ Failed(c)
            /\ ErrorKind(result[c]) = "IOError"
            /\ result[c].detail = "NotFound"
            /\ result[c].context.msg = ReadMessage(LastEvent(c).arg)
            /\ result[c].context.arg = None
        /\ (Failed(c) /\ ErrorKind(result[c]) = "IOError") => ReadFailed(c)

C5_Witness ==
    \E c \in Callers :
        /\ ReadFailed(c) /\ LastEvent(c).arg = "client_crt"
        /\ Failed(c)
        /\ result[c].context = Context("could not read client crt", None)

\* ---------------------------------------------------------------------- C6

MatchingKey == [kind |-> "private_key", matches_cert |-> TRUE]

\* A socket string that designates an endpoint that can be dialed: a path, or
\* a URL of a scheme the channel connects to.
Dialable(s) == UrlParse(s).kind = "Err" \/ s.scheme \in {"http", "https"}

\* How the call of c ended.
Outcome(c) ==
    CASE Ready(c)   -> "Ready"
      [] Failed(c)  -> ErrorKind(result[c])
      [] Aborted(c) -> "Panic"

\* The outcome of the earliest failing stage in the order load, inspect,
\* build-context, classify, connect, given the faults that are present.
DesignOutcome(c) ==
    IF \E p \in Paths : fs[p] = Absent THEN "IOError"
    ELSE IF fs[auth.client_crt] = Garbage THEN "CryptoError"
    ELSE IF fs[auth.client_crt] \notin CompleteCertificates THEN "IdentityError"
    ELSE IF fs[auth.ca_crt] = Garbage \/ fs[auth.client_key] = Garbage
    THEN "CryptoError"
    ELSE IF ~Dialable(socket[c]) \/ peer[c] # "accepts" THEN "ConnectionError"
    ELSE "Ready"

\* C6: whatever faults are present together (unreadable files, a malformed
\* certificate, a missing identity field, a malformed key or CA, a target that
\* cannot be dialed), a call that has ended returned the error of the earliest
\* failing stage, and there is a handle exactly when the call reached Ready.
C6_FailFastInDesignOrder ==
    \A c \in Callers :
        /\ Ready(c) <=> Ran(c, "assemble")
        /\ (Done(c) /\ fs[auth.client_key] \in {Absent, Garbage, MatchingKey}) =>
              Outcome(c) = DesignOutcome(c)

\* ---------------------------------------------------------------------- C7

DesignErrorKinds == {"IOError", "CryptoError", "IdentityError", "ConnectionError"}

\* C7: a call that has ended is Ready or Failed with one of the four kinds; a
\* socket string that is a valid URL is classified Network, and when its
\* scheme cannot be dialed the call fails at the dial with a ConnectionError.
C7_EndsReadyOrFailedWithKind ==
    \A c \in Callers :
        /\ Done(c) =>
             \/ Ready(c)
             \/ Failed(c) /\ ErrorKind(result[c]) \in DesignErrorKinds
        /\ ( /\ Done(c)
             /\ UrlParse(socket[c]).kind = "Ok"
             /\ ~Dialable(socket[c])
             /\ SoundButKey(c) /\ ~KeyFault(bytes[c].client_key) ) =>
               /\ Failed(c)
               /\ ErrorKind(result[c]) = "ConnectionError"
               /\ LastEvent(c) = Event("dial", "Network", FALSE)

\* ---------------------------------------------------------------------- C8

\* C8: once a call has classified its socket string it holds a transport:
\* Network when the string parses as a URL, whatever the scheme, and
\* otherwise LocalSocket with the string itself as the path.
C8_ClassificationTotal ==
    \A c \in Callers :
        Ran(c, "url_parse") =>
            /\ target[c] # None
            /\ target[c].kind =
                 (IF socket[c].scheme # "" THEN "Network" ELSE "LocalSocket")
            /\ target[c].kind = "LocalSocket" => target[c].path = socket[c]

\* ---------------------------------------------------------------------- C9

\* C9: two calls that read the same client certificate and both return a
\* handle return the same X509Details, whichever transports they connected.
C9_IdentityIndependentOfTransport ==
    \A c, d \in Callers :
        (Ready(c) /\ Ready(d) /\ bytes[c].client_crt = bytes[d].client_crt) =>
            result[c].value.x509_details = result[d].value.x509_details

C9_Witness ==
    \E c, d \in Callers :
        /\ Ready(c) /\ result[c].value.channel.transport = "Network"
        /\ Ready(d) /\ result[d].value.channel.transport = "LocalSocket"
        /\ bytes[c].client_crt = bytes[d].client_crt

\* --------------------------------------------------------------------- C10

\* Sound credentials in readable files, and an endpoint that accepts the dial
\* and completes the handshake.
ValidSetup(c) ==
    /\ fs[auth.ca_crt] = CaPem
    /\ fs[auth.client_crt] \in CompleteCertificates
    /\ fs[auth.client_key] = MatchingKey
    /\ Dialable(socket[c])
    /\ peer[c] = "accepts"

\* The four strings a certificate encodes.
EncodedIn(cert) ==
    [subject_common_name |-> cert.subject_cn,
     issuer_common_name  |-> cert.issuer_cn,
     sha256_fingerprint  |-> [kind |-> "String", text |-> "SHA256", hex |-> cert],
     key_algorithm       |-> [kind |-> "String",
                              text |-> IF cert.spki = "rsaEncryption"
                                       THEN "RSA" ELSE "ED25519"]]

\* C10: a call made with a valid setup eventually returns a handle, and the
\* X509Details of the handle are the values the client certificate encodes.
C10_ValidSetupReachesReady ==
    \A c \in Callers :
        (pc[c] = "read_ca_crt" /\ ValidSetup(c)) ~>
            /\ Ready(c)
            /\ result[c].value.channel = channel[c]
            /\ result[c].value.x509_details = EncodedIn(fs[auth.client_crt])

C10_Witness ==
    \E c \in Callers :
        /\ ValidSetup(c) /\ Ready(c)
        /\ result[c].value.x509_details = EncodedIn(fs[auth.client_crt])

\* ------------------------------------------------------------------ C13

\* How many times the call of c has performed the operation op.
Count(c, op) == Cardinality({i \in DOMAIN events[c] : events[c][i].op = op})

\* C13: a call dials at most once and returns as soon as the dial fails; a
\* handle comes out of exactly one successful dial and holds the one channel
\* that dial produced and the one X509Details value the call built.
C13_OneDialOneHandshakePerHandle ==
    \A c \in Callers :
        /\ Count(c, "dial") <= 1
        /\ (Ran(c, "dial") /\ ~Succeeded(c, "dial")) =>
                Done(c) /\ Failed(c) /\ channel[c] = None
        /\ Ready(c) =>
            /\ Count(c, "dial") = 1 /\ Succeeded(c, "dial")
            /\ Count(c, "x509_details") = 1
            /\ Count(c, "assemble") = 1
            /\ channel[c] # None /\ result[c].value.channel = channel[c]
            /\ x509_details[c] # None
            /\ result[c].value.x509_details = x509_details[c]

C13_Witness ==
    \E c \in Callers :
        Ready(c) /\ Count(c, "dial") = 1 /\ result[c].value.channel # None

\* ------------------------------------------------------------------ C15

\* The context of lines 125-127 for the call of c: the message with the Debug
\* form of system.socket.
ConnectContext(c) == Context("unable to connect to socket {:?}", socket[c])

\* The dial of c failed: the peer refused the connection or the handshake.
DialFailed(c) == Ran(c, "dial") /\ ~Succeeded(c, "dial")

\* C15: a refused connection or a rejected handshake, over a network target
\* and over a local socket alike, ends the call with a ConnectionError whose
\* context names the configured socket string; no transport error of the dial
\* is returned without it.
C15_DialFailureCarriesTarget ==
    \A c \in Callers :
        /\ DialFailed(c) =>
            /\ Failed(c)
            /\ ErrorKind(result[c]) = "ConnectionError"
            /\ result[c].detail \in {"refuses", "rejects_handshake"}
            /\ result[c].context = ConnectContext(c)
        /\ (Failed(c) /\ ErrorKind(result[c]) = "ConnectionError") =>
            /\ DialFailed(c)
            /\ result[c].context = ConnectContext(c)

C15_Witness ==
    \E c \in Callers :
        /\ DialFailed(c) /\ target[c].kind = "LocalSocket"
        /\ result[c].detail = "rejects_handshake"
        /\ result[c].context.arg = SocketPath

\* ------------------------------------------------------------------ C16

\* The call of c failed on lines 87-102, with the certificate bytes in hand and
\* before it had its X509Details.
InspectFailed(c) ==
    Failed(c) /\ Ran(c, "x509_from_pem") /\ ~Ran(c, "x509_details")

Classification(s) ==
    IF UrlParse(s).kind = "Ok" THEN "Network" ELSE "LocalSocket"

\* The transport kinds the call of c has dialed.
DialedKinds(c) ==
    {events[c][i].arg : i \in {j \in DOMAIN events[c] : events[c][j].op = "dial"}}

\* The call of c performed e before its i-th operation.
Before(c, i, e) == \E j \in 1..(i - 1) : events[c][j] = e

\* C18: a call dials one transport kind at most, the one line 113 chooses for
\* its socket string, so it never makes a network connect and a Unix-socket
\* connect both; and every dial comes after the three successful reads and
\* after tls_config(..) has accepted the configuration for that channel.  A
\* call that returns a handle has dialed exactly one kind.
C18_OneClassifiedTransportDialed ==
    \A c \in Callers :
        /\ DialedKinds(c) \subseteq {Classification(socket[c])}
        /\ Ready(c) => DialedKinds(c) = {Classification(socket[c])}
        /\ channel[c] # None =>
            /\ channel[c].transport = Classification(socket[c])
            /\ channel[c].transport = "LocalSocket" => channel[c].dialed = socket[c]
            /\ channel[c].transport = "Network" =>
                    channel[c].dialed = UrlAsStr(UrlParse(socket[c]).value)
        /\ \A i \in DOMAIN events[c] :
             events[c][i].op = "dial" =>
                /\ \A field \in DOMAIN auth : Before(c, i, Event("read", field, TRUE))
                /\ Before(c, i, Event("tls_config", events[c][i].arg, TRUE))
                /\ target[c] # None /\ events[c][i].arg = target[c].kind

C18_Witness ==
    \E c \in Callers :
        /\ DialedKinds(c) = {"LocalSocket"}
        /\ Classification(socket[c]) = "LocalSocket"
        /\ Done(c)

\* ------------------------------------------------------------------ C14

\* The targets lines 113-118 choose for a URL and for a path.
NetworkTarget == SelectTransport(SocketHttps).value

LocalSocketTarget == SelectTransport(SocketPath).value

SoloResults(files, s, behaviour) ==
    LET ca  == WithContext(FsRead(files, auth.ca_crt),
                           Context("could not read ca crt", None))
        crt == WithContext(FsRead(files, auth.client_crt),
                           Context("could not read client crt", None))
        key == WithContext(FsRead(files, auth.client_key),
                           Context("could not read client key", None))
    IN  IF ca.kind = "Err" THEN {ca}
        ELSE IF crt.kind = "Err" THEN {crt}
        ELSE IF key.kind = "Err" THEN {key}
        ELSE
    LET config  == ClientTlsConfig([ca_crt |-> ca.value, client_crt |-> crt.value,
                                    client_key |-> key.value])
        details == InspectCertificate(crt.value)
        chosen  == SelectTransport(s)
    IN  IF details.kind = "Err" THEN {details}
        ELSE IF chosen.kind # "Ok" THEN {chosen}
        ELSE UNION {
            IF TlsConnector(config, keyCheck).kind = "Err"
            THEN {TlsConnector(config, keyCheck)}
            ELSE {IF verdict = "accepts"
                  THEN Ok([channel |-> [transport |-> chosen.value.kind,
                                        uri       |-> chosen.value.uri,
                                        dialed    |-> Dialed(chosen.value),
                                        tls       |-> config],
                           x509_details |-> details.value])
                  ELSE Err("tonic::transport::Error(connect)", verdict,
                           Context("unable to connect to socket {:?}", s))
                    : verdict \in DialVerdicts(chosen.value, config, behaviour)}
            : keyCheck \in BOOLEAN}

\* Everything the call of c reads or writes besides the files.
Locals(c) ==
    <<pc[c], bytes[c], tls_config[c], x509_details[c], target[c], channel[c],
      result[c], events[c], open[c]>>

\* A step is taken by one call, and it leaves the files and every other call
\* as they were.
StepOfOneCall ==
    \E c \in Callers :
        /\ fs' = fs
        /\ \A d \in Callers \ {c} : Locals(d)' = Locals(d)

\* C11: with several calls in progress, interleaved in any way, every call
\* returns a value it could have returned running alone with the same files,
\* socket string and peer, and no step of a call touches another call.
C11_ConcurrentCallsAreIndependent ==
    /\ [](\A c \in Callers :
            Done(c) => result[c] \in SoloResults(fs, socket[c], peer[c]))
    /\ [][StepOfOneCall]_vars

C11_Witness ==
    /\ Ready("c1") /\ Ready("c2")
    /\ channel["c1"].transport = "Network"
    /\ channel["c2"].transport = "LocalSocket"
    /\ result["c1"] \in SoloResults(fs, socket["c1"], peer["c1"])

\* ------------------------------------------------------------------ C17

\* How many times the call of c has read the file of field.
ReadCount(c, field) ==
    Cardinality({i \in DOMAIN events[c] :
                    events[c][i].op = "read" /\ events[c][i].arg = field})

\* C17: a call reads each credential file once at most; the X509Details are
\* taken from the very bytes that are the certificate of the TLS identity, so
\* the details in a handle describe the certificate its channel presents even
\* when the file has been replaced in the meantime; and no step changes the
\* X509Details once they exist.
C17_IdentityDescribesPresentedCertificate ==
    /\ [](\A c \in Callers :
            /\ \A field \in DOMAIN auth : ReadCount(c, field) <= 1
            /\ tls_config[c] # None =>
                    tls_config[c].identity.cert = bytes[c].client_crt
            /\ x509_details[c] # None =>
                    x509_details[c] = EncodedIn(tls_config[c].identity.cert)
            /\ Ready(c) =>
                    result[c].value.x509_details =
                        EncodedIn(result[c].value.channel.tls.identity.cert))
    /\ [][\A c \in Callers :
            x509_details[c] # None => x509_details'[c] = x509_details[c]]_vars

C17_Witness ==
    \E c \in Callers :
        /\ Ready(c)
        /\ fs[auth.client_crt] # bytes[c].client_crt
        /\ result[c].value.x509_details # EncodedIn(fs[auth.client_crt])
        /\ result[c].value.x509_details = EncodedIn(bytes[c].client_crt)

\* ------------------------------------------------------------------ C12

\* The call of c was dropped by its caller.
WasCancelled(c) == result[c] = Cancelled

\* C12: when the caller drops the call at an await, during a read or during
\* the connect, and when the call fails, nothing stays open on behalf of the
\* call (no file, no socket) and no handle exists.
C12_CancellationReleasesResources ==
    \A c \in Callers :
        (WasCancelled(c) \/ Failed(c)) =>
            /\ open[c] = {}
            /\ channel[c] = None
            /\ ~Ready(c)

====
